---------------------------- MODULE Spec2Model ----------------------------
(***************************************************************************)
(* Model of the DSTY property finder: the two crawlers (crawler.py,        *)
(* improved_crawler.py), their SQLite listing store, and the web app       *)
(* (app.py) that runs refreshes from the main thread, the scheduler thread *)
(* and the POST /api/search handler.                                       *)
(*                                                                         *)
(* Text is modelled as a sequence of one-character tokens.  The Japanese   *)
(* characters of the source are written with ASCII stand-ins:              *)
(*   "man" = U+4E07 (ten thousand)   "yen" = U+5186   "fun" = U+5206 (min) *)
(*   "to", "ho" = U+5F92 U+6B69 (on foot)   "ten" = U+3001 (comma)         *)
(***************************************************************************)
EXTENDS Integers, Sequences, FiniteSets, TLC

VARIABLES
    scope,       \* size of the run: refreshes started, target areas, items per page
    impl,        \* which crawler class the app is wired to: "basic" | "enhanced"
    clock,       \* the last value datetime.now() returned, as a counter
    store,       \* committed rows of table properties, in rowid order
    txn,         \* the table as seen by the connection holding the write lock
    dbLock,      \* thread whose connection holds SQLite's write lock, or NoThread
    th,          \* per thread: position and locals of run_full_search
    runs,        \* number of refreshes started so far
    view,        \* result of the last get_top_properties call on the store as it is
    scoreIn,     \* arguments of the last direct scorer call
    scoreOut,    \* its results
    priceIn,     \* a price text, and a text that follows it in the same field
    priceOut,    \* results of the last direct extract_price calls on them
    walkIn,      \* a text that may state a walking time
    walkOut,     \* result of the last direct extract_walk_time call on it
    stats        \* result of the last get_stats call

vars == <<scope, impl, clock, store, txn, dbLock, th, runs, view, scoreIn, scoreOut,
          priceIn, priceOut, walkIn, walkOut, stats>>

-----------------------------------------------------------------------------
(* Bounds *)

MaxRefreshes == 2  \* refreshes started in one behaviour
NumAreas == 1  \* target areas visited by one refresh (a prefix of the table)
MaxItems == 1  \* listing items on one Suumo result page
MaxHomesItems == 0  \* listing items on one Homes.co.jp result page
MaxClock == 1  \* last value of the clock
MaxInactive == 1  \* rows marked inactive
BatchRefreshes == 2  \* refreshes started in one behaviour, longer pages
BatchClock == 0  \* last value of the clock, concurrent batches
BatchItems == 2  \* listing items on one Suumo result page, concurrent refreshes
ReplayRefreshes == 2  \* refreshes over unchanged site content, one after the other
ReplayAreas == 1  \* target areas visited, unchanged site content
ReplayItems == 2  \* listing items on one Suumo result page, unchanged site content
ReplayHomesItems == 1  \* listing items on one Homes.co.jp page, unchanged site content
ReplayClock == 1  \* last value of the clock, unchanged site content
SerialClock == 0  \* last value of the clock, refresh on its own
StatsRefreshes == 2  \* refreshes started, statistics
StatsAreas == 1  \* target areas, statistics
StatsItems == 1  \* listing items on one Suumo result page, statistics
StatsHomesItems == 1  \* listing items on one Homes.co.jp page, statistics
StatsClock == 1  \* last value of the clock, statistics
SerialRefreshes == 1  \* refreshes of a run on its own
SerialAreas == 2  \* target areas visited by a refresh running on its own
SerialItems == 2  \* listing items on one Suumo result page, refresh on its own
SerialHomesItems == 1  \* listing items on one Homes.co.jp page, refresh on its own

-----------------------------------------------------------------------------
(* Text helpers *)

Null == "NULL"

DigitChars == <<"0", "1", "2", "3", "4", "5", "6", "7", "8", "9">>

IsDigit(c) == \E i \in 1..10 : DigitChars[i] = c

DigitVal(c) == (CHOOSE i \in 1..10 : DigitChars[i] = c) - 1

RECURSIVE NumVal(_)
NumVal(ds) == IF ds = <<>> THEN 0
              ELSE 10 * NumVal(SubSeq(ds, 1, Len(ds) - 1)) + DigitVal(ds[Len(ds)])

RECURSIVE Pow10(_)
Pow10(n) == IF n = 0 THEN 1 ELSE 10 * Pow10(n - 1)

\* str.replace(c, '') / re.sub('[...]', '', s): delete every character in cs
RemoveChars(s, cs) == SelectSeq(s, LAMBDA c : c \notin cs)

\* end of the maximal run of digits that starts at position i (i - 1 if none)
DigitRunEnd(s, i) ==
    IF i > Len(s) \/ ~IsDigit(s[i]) THEN i - 1
    ELSE CHOOSE j \in i..Len(s) :
            /\ \A m \in i..j : IsDigit(s[m])
            /\ (j = Len(s) \/ ~IsDigit(s[j + 1]))

\* s.startswith(prefix)
StartsWith(prefix, s) == Len(s) >= Len(prefix) /\ SubSeq(s, 1, Len(prefix)) = prefix

\* `sub in s` for Python strings
Contains(sub, s) ==
    \E i \in 1..(Len(s) - Len(sub) + 1) : SubSeq(s, i, i + Len(sub) - 1) = sub

\* first match of (\d+\.?\d*): [found, ip = integer digits, fp = fraction digits]
FirstNumber(s) ==
    IF \A i \in 1..Len(s) : ~IsDigit(s[i])
    THEN [found |-> FALSE, ip |-> <<>>, fp |-> <<>>]
    ELSE LET b  == CHOOSE i \in 1..Len(s) :
                      IsDigit(s[i]) /\ \A m \in 1..(i - 1) : ~IsDigit(s[m])
             e  == DigitRunEnd(s, b)
             dot == e + 1 <= Len(s) /\ s[e + 1] = "."
             e2 == IF dot THEN DigitRunEnd(s, e + 2) ELSE e
         IN [found |-> TRUE,
             ip    |-> SubSeq(s, b, e),
             fp    |-> IF dot THEN SubSeq(s, e + 2, e2) ELSE <<>>]

\* first match of (\d{6,}): the first run of at least six digits
FirstLongInt(s) ==
    LET starts == {i \in 1..Len(s) :
                      /\ IsDigit(s[i])
                      /\ (i = 1 \/ ~IsDigit(s[i - 1]))
                      /\ DigitRunEnd(s, i) - i + 1 >= 6}
    IN IF starts = {} THEN [found |-> FALSE, ip |-> <<>>, fp |-> <<>>]
       ELSE LET b == CHOOSE i \in starts : \A m \in starts : i <= m
            IN [found |-> TRUE, ip |-> SubSeq(s, b, DigitRunEnd(s, b)), fp |-> <<>>]

\* int(float(m) * k) for a decimal literal m = ip.fp (exact decimal arithmetic)
IntOfScaled(m, k) == NumVal(m.ip) * k + (NumVal(m.fp) * k) \div Pow10(Len(m.fp))

-----------------------------------------------------------------------------
(* crawler.py: field extraction *)

\* DStyPropertyCrawler.extract_price
extract_price(price_text) ==
    LET m == FirstNumber(RemoveChars(price_text, {"man", "yen"}))
    IN IF m.found THEN IntOfScaled(m, 10000) ELSE 0

\* first match of (\d+)fun: digits of the first digit run directly followed by fun
FirstMinutes(s) ==
    LET ends == {j \in 1..(Len(s) - 1) : IsDigit(s[j]) /\ s[j + 1] = "fun"}
    IN IF ends = {} THEN [found |-> FALSE, n |-> 0]
       ELSE LET j == CHOOSE x \in ends : \A y \in ends : x <= y
                b == CHOOSE i \in 1..j :
                        /\ \A m \in i..j : IsDigit(s[m])
                        /\ (i = 1 \/ ~IsDigit(s[i - 1]))
            IN [found |-> TRUE, n |-> NumVal(SubSeq(s, b, j))]

\* DStyPropertyCrawler.extract_walk_time
extract_walk_time(text) ==
    LET m == FirstMinutes(text) IN IF m.found THEN m.n ELSE 99


-----------------------------------------------------------------------------
(* improved_crawler.py: field extraction *)

\* t has the form \d+\.?\d*
IsNumberText(t) ==
    /\ t # <<>> /\ IsDigit(t[1])
    /\ \A i \in 1..Len(t) : IsDigit(t[i]) \/ t[i] = "."
    /\ Cardinality({i \in 1..Len(t) : t[i] = "."}) <= 1

\* first match of (\d+\.?\d*)man: the leftmost number directly followed by man
FirstManNumber(s) ==
    LET EndAt(i) == CHOOSE e \in i..Len(s) : s[e + 1] = "man" /\ \A m \in i..e : s[m] # "man"
        starts == {i \in 1..(Len(s) - 1) :
                      /\ \E e \in i..(Len(s) - 1) : s[e + 1] = "man" /\ \A m \in i..e : s[m] # "man"
                      /\ IsNumberText(SubSeq(s, i, EndAt(i)))}
    IN IF starts = {} THEN [found |-> FALSE, ip |-> <<>>, fp |-> <<>>]
       ELSE LET b == CHOOSE i \in starts : \A m \in starts : i <= m
            IN FirstNumber(SubSeq(s, b, EndAt(b)))

\* ImprovedDStyPropertyCrawler.extract_price
extract_price_enhanced(price_text) ==
    IF price_text = <<>> THEN 0
    ELSE LET clean_text == RemoveChars(price_text, {"man", "yen", ",", "ten", " "})
             m1 == FirstManNumber(clean_text)
             m2 == FirstLongInt(clean_text)
             m3 == FirstNumber(clean_text)
             m  == IF m1.found THEN m1 ELSE IF m2.found THEN m2 ELSE m3
         IN IF ~m.found THEN 0
            ELSE IF IntOfScaled(m, 1) < 100 THEN IntOfScaled(m, 10000)
            ELSE IntOfScaled(m, 1)

\* first match of to ho (\d+) fun
FirstWalkMinutes(s) ==
    LET starts == {i \in 1..(Len(s) - 3) :
                      /\ s[i] = "to" /\ s[i + 1] = "ho"
                      /\ IsDigit(s[i + 2])
                      /\ DigitRunEnd(s, i + 2) < Len(s)
                      /\ s[DigitRunEnd(s, i + 2) + 1] = "fun"}
    IN IF starts = {} THEN [found |-> FALSE, n |-> 0]
       ELSE LET i == CHOOSE x \in starts : \A y \in starts : x <= y
            IN [found |-> TRUE, n |-> NumVal(SubSeq(s, i + 2, DigitRunEnd(s, i + 2)))]

\* ImprovedDStyPropertyCrawler.extract_walk_time, on the item's text
extract_walk_time_enhanced(text) ==
    LET m1 == FirstWalkMinutes(text)
        m2 == FirstMinutes(text)
    IN IF m1.found THEN m1.n ELSE IF m2.found THEN m2.n ELSE 10

-----------------------------------------------------------------------------
(* Search areas and criteria *)

\* DStyPropertyCrawler.target_areas, in dict order
target_areas ==
    << [name |-> "Denenchofu",      priority |-> 10, route |-> "Pink"],
       [name |-> "Meguro",          priority |-> 10, route |-> "Pink"],
       [name |-> "Ebisu",           priority |-> 9,  route |-> "Pink"],
       [name |-> "Todoroki",        priority |-> 8,  route |-> "Yellow"],
       [name |-> "Oyamadai",        priority |-> 8,  route |-> "Yellow"],
       [name |-> "Toritsudaigaku",  priority |-> 8,  route |-> "Yellow"],
       [name |-> "Sangenjaya",      priority |-> 7,  route |-> "Green"],
       [name |-> "Komazawadaigaku", priority |-> 7,  route |-> "Green"],
       [name |-> "Nakamachidai",    priority |-> 6,  route |-> "School"] >>

\* ImprovedDStyPropertyCrawler.target_areas, in dict order
target_areas_enhanced ==
    << [name |-> "Denenchofu", priority |-> 10, route |-> "Pink"],
       [name |-> "Meguro",     priority |-> 10, route |-> "Pink"],
       [name |-> "Ebisu",      priority |-> 9,  route |-> "Pink"],
       [name |-> "Todoroki",   priority |-> 8,  route |-> "Yellow"],
       [name |-> "Oyamadai",   priority |-> 8,  route |-> "Yellow"],
       [name |-> "Sangenjaya", priority |-> 7,  route |-> "Green"] >>

min_rent == 250000
max_rent == 350000

-----------------------------------------------------------------------------
(* crawler.py: calculate_score.  Each component yields its points and the  *)
(* reasons it appends.                                                     *)

NoPoints == [pts |-> 0, reasons |-> <<>>]

PriceScore(price) ==
    IF 280000 <= price /\ price <= 320000
    THEN [pts |-> 25, reasons |-> <<"Perfect price range">>]
    ELSE IF 250000 <= price /\ price <= 350000
    THEN [pts |-> 20, reasons |-> <<"Good price">>]
    ELSE NoPoints

RoomScore(rooms) ==
    IF rooms = <<"3", "L", "D", "K">>
    THEN [pts |-> 20, reasons |-> <<"Perfect 3LDK layout">>]
    ELSE IF rooms = <<"2", "L", "D", "K">>
    THEN [pts |-> 15, reasons |-> <<"Good 2LDK layout">>]
    ELSE IF Contains(<<"3">>, rooms)
    THEN [pts |-> 18, reasons |-> <<"3-room layout">>]
    ELSE NoPoints

\* the priority weighted by ten
AreaScore_Scaled(area_data) ==
    [pts |-> area_data.priority * 10,
     reasons |-> <<"Priority area: " \o area_data.route \o " Route">>]

AreaScore(area_data) ==
    [pts |-> area_data.priority,
     reasons |-> <<"Priority area: " \o area_data.route \o " Route">>]

\* the walk time thresholds valued the other way round
WalkScore_FarBest(walk) ==
    IF walk <= 5 THEN [pts |-> 5, reasons |-> <<"Very close to station">>]
    ELSE IF walk <= 10 THEN [pts |-> 10, reasons |-> <<"Close to station">>]
    ELSE IF walk <= 15 THEN [pts |-> 15, reasons |-> <<"Acceptable walk">>]
    ELSE NoPoints

WalkScore(walk) ==
    IF walk <= 5 THEN [pts |-> 15, reasons |-> <<"Very close to station">>]
    ELSE IF walk <= 10 THEN [pts |-> 10, reasons |-> <<"Close to station">>]
    ELSE IF walk <= 15 THEN [pts |-> 5, reasons |-> <<"Acceptable walk">>]
    ELSE NoPoints

RouteScore(route) ==
    IF route = "Pink" THEN [pts |-> 10, reasons |-> <<"Premium Pink Route access">>]
    ELSE IF route = "Yellow" THEN [pts |-> 8, reasons |-> <<"Excellent Yellow Route access">>]
    ELSE IF route = "Green" THEN [pts |-> 6, reasons |-> <<"Good Green Route access">>]
    ELSE NoPoints

\* the same score, with the reasons of the price block only
calculate_score_PriceReasonsOnly(property_data, area_data) ==
    [score   |-> PriceScore(property_data.price).pts + RoomScore(property_data.rooms).pts
                 + AreaScore(area_data).pts + WalkScore(property_data.walk_minutes).pts
                 + RouteScore(area_data.route).pts,
     reasons |-> PriceScore(property_data.price).reasons]

\* DStyPropertyCrawler.calculate_score
calculate_score(property_data, area_data) ==
    LET c1 == PriceScore(property_data.price)
        c2 == RoomScore(property_data.rooms)
        c3 == AreaScore(area_data)
        c4 == WalkScore(property_data.walk_minutes)
        c5 == RouteScore(area_data.route)
    IN [score   |-> c1.pts + c2.pts + c3.pts + c4.pts + c5.pts,
        reasons |-> c1.reasons \o c2.reasons \o c3.reasons \o c4.reasons \o c5.reasons]

\* the five scoring blocks of calculate_score, in the order they run
ScoreParts(property_data, area_data) ==
    << PriceScore(property_data.price), RoomScore(property_data.rooms),
       AreaScore(area_data), WalkScore(property_data.walk_minutes),
       RouteScore(area_data.route) >>

-----------------------------------------------------------------------------
(* improved_crawler.py: calculate_enhanced_score *)

\* a price below the budget valued above one inside it
PriceScoreEnhanced_CheapBest(price) ==
    IF 250000 <= price /\ price <= 350000
    THEN [pts |-> 25, reasons |-> <<"Good price range">>]
    ELSE IF price < 250000
    THEN [pts |-> 28, reasons |-> <<"Great value - under budget">>]
    ELSE [pts |-> -5, reasons |-> <<"Over budget">>]

PriceScoreEnhanced(price) ==
    IF 280000 <= price /\ price <= 320000
    THEN [pts |-> 30, reasons |-> <<"Perfect price range (280k-320k)">>]
    ELSE IF 250000 <= price /\ price <= 350000
    THEN [pts |-> 25, reasons |-> <<"Good price range">>]
    ELSE IF price < 250000
    THEN [pts |-> 20, reasons |-> <<"Great value - under budget">>]
    ELSE [pts |-> -5, reasons |-> <<"Over budget">>]

RoomScoreEnhanced(rooms) ==
    IF Contains(<<"3", "L", "D", "K">>, rooms)
    THEN [pts |-> 25, reasons |-> <<"Perfect family layout (3LDK)">>]
    ELSE IF Contains(<<"2", "L", "D", "K">>, rooms)
    THEN [pts |-> 20, reasons |-> <<"Good layout (2LDK)">>]
    ELSE IF Contains(<<"3">>, rooms)
    THEN [pts |-> 22, reasons |-> <<"3-room layout">>]
    ELSE NoPoints

\* the priority added with no reason for any route
AreaScoreEnhanced_Unexplained(area_data) == [pts |-> area_data.priority, reasons |-> <<>>]

AreaScoreEnhanced(area_data) ==
    [pts |-> area_data.priority,
     reasons |-> IF area_data.route = "Pink"
                 THEN <<"Premium Pink Route - excellent bus access">>
                 ELSE IF area_data.route = "Yellow"
                 THEN <<"Excellent Yellow Route - great for families">>
                 ELSE IF area_data.route = "Green"
                 THEN <<"Good Green Route - spacious area">>
                 ELSE <<>>]

WalkScoreEnhanced(walk) ==
    IF walk <= 5 THEN [pts |-> 15, reasons |-> <<"Very close to station (<=5 min)">>]
    ELSE IF walk <= 10 THEN [pts |-> 12, reasons |-> <<"Close to station (<=10 min)">>]
    ELSE IF walk <= 15 THEN [pts |-> 8, reasons |-> <<"Acceptable walk (<=15 min)">>]
    ELSE NoPoints

SourceScore(source) ==
    IF source = "Suumo" THEN [pts |-> 5, reasons |-> <<"High-quality Suumo listing">>]
    ELSE IF source \in {"Homes.co.jp", "AtHome"}
    THEN [pts |-> 3, reasons |-> <<"Verified " \o source \o " listing">>]
    ELSE NoPoints

\* min(100, max(0, score))
Clamp(score) == IF score < 0 THEN 0 ELSE IF score > 100 THEN 100 ELSE score

\* ImprovedDStyPropertyCrawler.calculate_enhanced_score
calculate_enhanced_score(property_data, area_data) ==
    LET c1 == PriceScoreEnhanced(property_data.price)
        c2 == RoomScoreEnhanced(property_data.rooms)
        c3 == AreaScoreEnhanced(area_data)
        c4 == WalkScoreEnhanced(property_data.walk_minutes)
        c5 == SourceScore(property_data.source)
    IN [score   |-> Clamp(c1.pts + c2.pts + c3.pts + c4.pts + c5.pts),
        reasons |-> c1.reasons \o c2.reasons \o c3.reasons \o c4.reasons \o c5.reasons]

\* the five scoring blocks of calculate_enhanced_score, in the order they run
EnhancedScoreParts(property_data, area_data) ==
    << PriceScoreEnhanced(property_data.price), RoomScoreEnhanced(property_data.rooms),
       AreaScoreEnhanced(area_data), WalkScoreEnhanced(property_data.walk_minutes),
       SourceScore(property_data.source) >>

-----------------------------------------------------------------------------
(* The source site's pages.  A Suumo listing item (div.cassetteitem) is a  *)
(* record of the elements the parsers look for.  An element that may be    *)
(* absent is a sequence: <<>> when absent, <<text>> when present.  Columns *)
(* the code only copies (location, image_url) are left out.                *)

\* "https://suumo.jp"
SuumoHost == <<"h", "t", "t", "p", "s", ":", "/", "/", "s", "u", "u", "m", "o", ".", "j", "p">>

\* "https://www.homes.co.jp/"
HomesUrl == <<"h", "t", "t", "p", "s", ":", "/", "/", "w", "w", "w", ".",
              "h", "o", "m", "e", "s", ".", "c", "o", ".", "j", "p", "/">>

Y3LDK == <<"3", "L", "D", "K">>
Y2LDK == <<"2", "L", "D", "K">>
Unknown == <<"U", "n", "k", "n", "o", "w", "n">>

RawItems ==
    { \* 28 man yen, 3LDK, 5 minutes on foot, link /a
      [title_elem |-> <<"T1">>, price_elem |-> << <<"2", "8", "man", "yen">> >>,
       room_elem |-> <<Y3LDK>>, walk_elem |-> << <<"to", "ho", "5", "fun">> >>, href |-> << <<"/", "a">> >>],
      \* the same offer under another title and link
      [title_elem |-> <<"T2">>, price_elem |-> << <<"2", "8", "man", "yen">> >>,
       room_elem |-> <<Y3LDK>>, walk_elem |-> << <<"to", "ho", "5", "fun">> >>, href |-> << <<"/", "b">> >>],
      \* the first offer's title and price again, under a third link
      [title_elem |-> <<"T1">>, price_elem |-> << <<"2", "8", "man", "yen">> >>,
       room_elem |-> <<Y2LDK>>, walk_elem |-> << <<"to", "ho", "1", "2", "fun">> >>, href |-> << <<"/", "e">> >>],
      \* no link element
      [title_elem |-> <<"T3">>, price_elem |-> << <<"3", "0", "man", "yen">> >>,
       room_elem |-> <<Y2LDK>>, walk_elem |-> << <<"to", "ho", "1", "2", "fun">> >>, href |-> <<>>],
      \* 3 man yen
      [title_elem |-> <<"T4">>, price_elem |-> << <<"3", "man", "yen">> >>,
       room_elem |-> <<Y3LDK>>, walk_elem |-> << <<"to", "ho", "5", "fun">> >>, href |-> << <<"/", "c">> >>],
      \* no price element
      [title_elem |-> <<"T5">>, price_elem |-> <<>>,
       room_elem |-> <<Y3LDK>>, walk_elem |-> << <<"to", "ho", "5", "fun">> >>, href |-> << <<"/", "d">> >>] }

\* A Homes.co.jp listing item (div.prg-bukkenList): its heading and its text
HomesItems ==
    { [title_elem |-> <<"H1">>, text |-> <<"2", "9", "man", "yen">>],
      [title_elem |-> <<>>, text |-> <<"x">>] }

RECURSIVE SeqsUpTo(_, _)
SeqsUpTo(S, n) ==
    IF n = 0 THEN {<<>>}
    ELSE LET shorter == SeqsUpTo(S, n - 1)
         IN shorter \cup {Append(q, x) : q \in {r \in shorter : Len(r) = n - 1}, x \in S}

\* the listing items found under the given links
ListingsAt(links) == {item \in RawItems : item.href # <<>> /\ item.href[1] \in links}

\* result pages the site can serve
Pages == SeqsUpTo(scope.listings, scope.items)
HomesPages == SeqsUpTo(HomesItems, scope.homes)

\* outcomes of session.get: an HTTP status with a page; status 0 is a raised exception
Responses(pages) ==
    {[status |-> 200, page |-> pg] : pg \in pages}
    \cup {[status |-> st, page |-> <<>>] : st \in {503, 404, 0}}

\* text of an optional element, "" when absent
TextOf(elem) == IF elem = <<>> THEN <<>> ELSE elem[1]

\* item.get_text(): the item's text in document order; the title is one opaque token
ItemText(item) ==
    item.title_elem \o TextOf(item.walk_elem) \o TextOf(item.price_elem) \o TextOf(item.room_elem)

-----------------------------------------------------------------------------
(* crawler.py: parsing one item.  A parser returns <<>> for None and       *)
(* <<property_data>> otherwise.                                            *)

\* a check of the upper end only
PriceInBudget_MaxOnly(price) == price <= max_rent

\* the budget check of parse_property_item: min_rent <= price <= max_rent
PriceInBudget(price) == min_rent <= price /\ price <= max_rent

\* DStyPropertyCrawler.parse_property_item
parse_property_item(item, area_data, now) ==
    IF item.price_elem = <<>> THEN <<>>
    ELSE LET price == extract_price(item.price_elem[1])
         IN IF ~PriceInBudget(price) THEN <<>>
            ELSE LET property_data ==
                         [title        |-> IF item.title_elem = <<>> THEN "No title"
                                           ELSE item.title_elem[1],
                          price        |-> price,
                          rooms        |-> IF item.room_elem = <<>> THEN Unknown
                                           ELSE item.room_elem[1],
                          station      |-> area_data.name,
                          walk_minutes |-> extract_walk_time(TextOf(item.walk_elem)),
                          property_url |-> IF item.href # <<>> /\ item.href[1] # <<>>
                                           THEN SuumoHost \o item.href[1] ELSE <<>>,
                          found_date   |-> now,
                          source       |-> Null,
                          area_priority |-> area_data.priority,
                          route_type   |-> area_data.route]
                     r == calculate_score(property_data, area_data)
                 IN << property_data @@ [score |-> r.score, reasons |-> r.reasons] >>

\* a loop that ends at the first item that does not parse
RECURSIVE ParsePropertyItems_StopAtReject(_, _, _)
ParsePropertyItems_StopAtReject(page, area_data, nows) ==
    IF page = <<>> \/ parse_property_item(Head(page), area_data, Head(nows)) = <<>> THEN <<>>
    ELSE parse_property_item(Head(page), area_data, Head(nows))
         \o ParsePropertyItems_StopAtReject(Tail(page), area_data, Tail(nows))

\* the loop over property_items: the items of a page that parse, in page order
\* (nows[i] is the value of datetime.now() while item i is parsed)
RECURSIVE ParsePropertyItems(_, _, _)
ParsePropertyItems(page, area_data, nows) ==
    IF page = <<>> THEN <<>>
    ELSE parse_property_item(Head(page), area_data, Head(nows))
         \o ParsePropertyItems(Tail(page), area_data, Tail(nows))

\* DStyPropertyCrawler.search_suumo_area, given the outcome of session.get
search_suumo_area(resp, area_data, nows) ==
    IF resp.status # 200 THEN <<>>
    ELSE ParsePropertyItems(resp.page, area_data, nows)

-----------------------------------------------------------------------------
(* improved_crawler.py: parsing *)

\* first match of (\d+)<suffix> in s, as the matched text; <<>> if none
FirstLayout(s, suffix) ==
    LET n == Len(suffix)
        starts == {i \in 1..Len(s) :
                      /\ IsDigit(s[i])
                      /\ DigitRunEnd(s, i) + n <= Len(s)
                      /\ SubSeq(s, DigitRunEnd(s, i) + 1, DigitRunEnd(s, i) + n) = suffix}
    IN IF starts = {} THEN <<>>
       ELSE LET b == CHOOSE i \in starts : \A m \in starts : i <= m
            IN SubSeq(s, b, DigitRunEnd(s, b) + n)

\* ImprovedDStyPropertyCrawler.extract_rooms
extract_rooms(item) ==
    IF item.room_elem # <<>> THEN item.room_elem[1]
    ELSE LET text == ItemText(item)
             m1 == FirstLayout(text, <<"L", "D", "K">>)
             m2 == FirstLayout(text, <<"D", "K">>)
             m3 == FirstLayout(text, <<"K">>)
         IN IF m1 # <<>> THEN m1 ELSE IF m2 # <<>> THEN m2
            ELSE IF m3 # <<>> THEN m3 ELSE Unknown

\* ImprovedDStyPropertyCrawler.extract_url, for source 'suumo'
extract_url(item) ==
    IF item.href # <<>> /\ item.href[1] # <<>>
    THEN IF ~StartsWith(<<"h", "t", "t", "p">>, item.href[1]) THEN SuumoHost \o item.href[1]
         ELSE item.href[1]
    ELSE <<>>

\* ImprovedDStyPropertyCrawler.parse_suumo_item
parse_suumo_item(item, area_data, now) ==
    IF item.title_elem = <<>> \/ item.title_elem[1] = "" THEN <<>>
    ELSE LET price == IF item.price_elem = <<>> THEN 0
                      ELSE extract_price_enhanced(item.price_elem[1])
         IN IF price = 0 THEN <<>>
            ELSE LET rooms == extract_rooms(item)
                     property_data ==
                         [title        |-> item.title_elem[1],
                          price        |-> price,
                          rooms        |-> IF rooms = <<>> THEN Unknown ELSE rooms,
                          station      |-> area_data.name,
                          walk_minutes |-> extract_walk_time_enhanced(ItemText(item)),
                          property_url |-> extract_url(item),
                          found_date   |-> now,
                          source       |-> "Suumo",
                          area_priority |-> area_data.priority,
                          route_type   |-> area_data.route]
                     r == calculate_enhanced_score(property_data, area_data)
                 IN << property_data @@ [score |-> r.score, reasons |-> r.reasons] >>

\* the budget filter of parse_suumo_response and parse_homes_response
InBudget(property_data) ==
    min_rent <= property_data.price /\ property_data.price <= max_rent

\* the loop of parse_suumo_response over property_items
RECURSIVE ParseSuumoItems(_, _, _)
ParseSuumoItems(page, area_data, nows) ==
    IF page = <<>> THEN <<>>
    ELSE parse_suumo_item(Head(page), area_data, Head(nows))
         \o ParseSuumoItems(Tail(page), area_data, Tail(nows))

\* ImprovedDStyPropertyCrawler.parse_suumo_response
parse_suumo_response(page, area_data, nows) ==
    SelectSeq(ParseSuumoItems(page, area_data, nows), InBudget)

\* ImprovedDStyPropertyCrawler.parse_homes_item
parse_homes_item(item, area_data, now) ==
    LET price == extract_price_enhanced(item.text)
    IN IF price = 0 THEN <<>>
       ELSE LET property_data ==
                    [title        |-> IF item.title_elem = <<>> THEN area_data.name \o " Property"
                                      ELSE item.title_elem[1],
                     price        |-> price,
                     rooms        |-> <<"2", "-", "3", "L", "D", "K">>,
                     station      |-> area_data.name,
                     walk_minutes |-> 10,
                     property_url |-> HomesUrl,
                     found_date   |-> now,
                     source       |-> "Homes.co.jp",
                     area_priority |-> area_data.priority,
                     route_type   |-> area_data.route]
                r == calculate_enhanced_score(property_data, area_data)
            IN << property_data @@ [score |-> r.score, reasons |-> r.reasons] >>

\* the loop of parse_homes_response over property_items
RECURSIVE ParseHomesItems(_, _, _)
ParseHomesItems(page, area_data, nows) ==
    IF page = <<>> THEN <<>>
    ELSE parse_homes_item(Head(page), area_data, Head(nows))
         \o ParseHomesItems(Tail(page), area_data, Tail(nows))

\* ImprovedDStyPropertyCrawler.parse_homes_response
parse_homes_response(page, area_data, nows) ==
    SelectSeq(ParseHomesItems(page, area_data, nows), InBudget)

\* ImprovedDStyPropertyCrawler.search_suumo_improved with search_suumo_alternative:
\* resp answers the first request, alt the station-based one tried on a 503
search_suumo_improved(resp, alt, area_data, nows) ==
    IF resp.status = 200 THEN parse_suumo_response(resp.page, area_data, nows)
    ELSE IF resp.status = 503
    THEN IF alt.status = 200 THEN parse_suumo_response(alt.page, area_data, nows) ELSE <<>>
    ELSE <<>>

\* ImprovedDStyPropertyCrawler.search_homes_co_jp
search_homes_co_jp(resp, area_data, nows) ==
    IF resp.status = 200 THEN parse_homes_response(resp.page, area_data, nows) ELSE <<>>

\* ImprovedDStyPropertyCrawler.search_athome_co_jp: parse_athome_response returns []
search_athome_co_jp(resp, area_data, nows) == <<>>

-----------------------------------------------------------------------------
(* The listing store: table properties of dsty_properties.db *)

NoThread == "none"
NoTime == -1

\* threads of app.py: the main thread (startup refresh, then the web server),
\* the scheduler thread, and a request thread of the web server
Threads == {"main", "sched", "http"}

\* the row INSERT writes for prop: the next AUTOINCREMENT id, is_active DEFAULT 1
NewRow(table, prop, last_seen) ==
    prop @@ [id |-> Len(table) + 1, is_active |-> TRUE, last_seen |-> last_seen]

\* a column without the UNIQUE constraint
UrlTaken_NoConstraint(table, url) == FALSE

\* property_url TEXT UNIQUE: would inserting this url violate the constraint?
UrlTaken(table, url) == \E i \in 1..Len(table) : table[i].property_url = url

\* the table a connection reads: its own transaction's, else the committed one
TableSeen(t) == IF dbLock = t THEN txn ELSE store

InFlight(t) == th[t].pc \in {"search", "save", "select", "write", "commit", "return"}

\* a thread outside run_full_search; page and hpage are the Suumo and Homes.co.jp
\* result pages last fetched, failed tells whether an area search of this
\* refresh got no page from any site (every request ended in an exception or
\* a status other than 200), before is the committed table as it was when the
\* refresh started, logged are the rows the refresh wrote to search_log
\* (crawler.py) or search_results (improved_crawler.py) for the area it searched last
IdleThread ==
    [pc |-> "idle", ai |-> 0, page |-> <<>>, hpage |-> <<>>, props |-> <<>>, k |-> 0,
     existing |-> <<>>, new_count |-> 0, total_found |-> 0, total_new |-> 0,
     failed |-> FALSE, before |-> <<>>, logged |-> <<>>]

NoView == [valid |-> FALSE, limit |-> 0, rows |-> <<>>]
NoStats == [valid |-> FALSE, total_properties |-> 0, in_budget |-> 0,
            avg_score |-> 0, max_score |-> 0]
NoScoreIn == [price |-> 0, rooms |-> <<>>, walk_minutes |-> 0, source |-> Null, area |-> 0]
NoScoreOut == [fn |-> "none", score |-> 0, reasons |-> <<>>]
NoPriceIn == [text |-> <<>>, more |-> <<>>]
NoPriceOut == [fn |-> "none", price |-> 0, price_more |-> 0]
NoWalkOut == [fn |-> "none", minutes |-> 0]

\* concurrent refreshes over one target area and short result pages
SmallScope ==
    [refreshes |-> MaxRefreshes, areas |-> NumAreas, items |-> MaxItems, homes |-> MaxHomesItems,
     listings |-> RawItems, clock |-> MaxClock]

Init ==
    /\ scope = SmallScope
    /\ impl \in {"basic", "enhanced"}
    /\ clock = 0
    /\ store = <<>>
    /\ txn = <<>>
    /\ dbLock = NoThread
    /\ th = [t \in Threads |-> IF t = "main" THEN [IdleThread EXCEPT !.pc = "init"]
                                ELSE IdleThread]
    /\ runs = 0
    /\ view = NoView
    /\ scoreIn = NoScoreIn
    /\ scoreOut = NoScoreOut
    /\ priceIn = NoPriceIn
    /\ priceOut = NoPriceOut
    /\ walkIn = <<>>
    /\ walkOut = NoWalkOut
    /\ stats = NoStats

Areas == IF impl = "basic" THEN target_areas ELSE target_areas_enhanced

-----------------------------------------------------------------------------
(* run_full_search / run_multi_site_search, one invocation per thread *)

\* entry of run_full_search: total_found = 0, total_new = 0, first area
Begin(t) ==
    /\ runs < scope.refreshes
    /\ th' = [th EXCEPT ![t] = [IdleThread EXCEPT !.pc = "search", !.ai = 1, !.before = store]]
    /\ runs' = runs + 1
    /\ UNCHANGED <<scope, stats, priceIn, priceOut, walkIn, walkOut, impl, clock, store, txn, dbLock, view, scoreIn, scoreOut>>

\* app.py __main__: crawler.run_full_search() before app.run
StartupSearch ==
    /\ th["main"].pc = "init"
    /\ Begin("main")

\* run_scheduled_search: the job registered with schedule.every(4).hours is due
ScheduledSearch ==
    /\ th["sched"].pc = "idle"
    /\ Begin("sched")

\* api_search: POST /api/search, served once app.run has started
ApiSearch ==
    /\ th["main"].pc = "serving"
    /\ th["http"].pc = "idle"
    /\ Begin("http")

\* the loop over target_areas moves on after area th[t].ai
AfterArea(r) ==
    IF r.ai < scope.areas THEN [r EXCEPT !.pc = "search", !.ai = r.ai + 1,
                                      !.props = <<>>, !.k = 0, !.new_count = 0]
    ELSE [r EXCEPT !.pc = "return", !.props = <<>>, !.k = 0, !.new_count = 0]

\* successive values of datetime.now(): n readings, none earlier than the one before
RECURSIVE Readings(_, _)
Readings(from, n) ==
    IF n = 0 THEN {<<>>}
    ELSE UNION {{<<c>> \o r : r \in Readings(c, n - 1)} : c \in from..scope.clock}

\* the clock after the readings nows
ClockAfter(nows) == IF nows = <<>> THEN clock ELSE nows[Len(nows)]

\* crawler.py: properties = self.search_suumo_area(...); if properties: save
SearchArea(t) ==
    /\ impl = "basic"
    /\ th[t].pc = "search"
    /\ \E o \in UNION {{[page  |-> resp.page, nows |-> nows, failed |-> resp.status # 200,
                          props |-> search_suumo_area(resp, Areas[th[t].ai], nows)] :
                            nows \in Readings(clock, Len(resp.page))} :
                        resp \in Responses(Pages)} :
          /\ clock' = ClockAfter(o.nows)
          /\ th' = [th EXCEPT ![t] =
                       IF o.props # <<>>
                       THEN [@ EXCEPT !.pc = "save", !.page = o.page, !.logged = <<>>,
                                      !.props = o.props, !.k = 1, !.new_count = 0]
                       ELSE AfterArea([@ EXCEPT !.page = o.page, !.logged = <<>>,
                                                !.failed = @ \/ o.failed])]
    /\ UNCHANGED <<scope, stats, priceIn, priceOut, walkIn, walkOut, impl, store, txn, dbLock, runs, view, scoreIn, scoreOut>>

\* the page a Suumo search ends up parsing: the first response's, or on a 503 the
\* alternative request's
SuumoPage(resp, alt) ==
    IF resp.status = 200 THEN resp.page
    ELSE IF resp.status = 503 /\ alt.status = 200 THEN alt.page ELSE <<>>

\* DStyPropertyCrawler.log_search: the row added to search_log
log_search(found, new) ==
    [source |-> "Suumo", found |-> found, new |-> new, status |-> "success"]

\* ImprovedDStyPropertyCrawler.log_search_result: the row added to search_results
log_search_result(source, count, status) ==
    [source |-> source, found |-> count, new |-> 0, status |-> status]

\* improved_crawler.py: the three site searches of one area, each followed by its
\* log_search_result; if area_properties: save
SearchAreaEnhanced(t) ==
    /\ impl = "enhanced"
    /\ th[t].pc = "search"
    /\ \E o \in {[page |-> SuumoPage(resp, alt), hpage |-> hresp.page,
                  failed |-> /\ resp.status # 200
                             /\ (resp.status = 503 => alt.status # 200)
                             /\ hresp.status # 200] :
                    resp \in Responses(Pages), alt \in Responses(Pages),
                    hresp \in Responses(HomesPages)} :
       \E nows \in Readings(clock, Len(o.page)), hnows \in Readings(clock, Len(o.hpage)) :
       \E site \in {LET area_data == Areas[th[t].ai]
                        ok(pg) == [status |-> 200, page |-> pg]
                    IN [suumo_props  |-> search_suumo_improved(ok(o.page), ok(o.page), area_data, nows),
                        homes_props  |-> search_homes_co_jp(ok(o.hpage), area_data, hnows),
                        athome_props |-> search_athome_co_jp(ok(<<>>), area_data, <<>>)]} :
          LET area_properties == site.suumo_props \o site.homes_props \o site.athome_props
              rows == << log_search_result("Suumo", Len(site.suumo_props), "success"),
                         log_search_result("Homes.co.jp", Len(site.homes_props), "success"),
                         log_search_result("AtHome", Len(site.athome_props), "success") >>
          IN /\ IF nows = <<>> \/ hnows = <<>> THEN TRUE ELSE nows[Len(nows)] <= hnows[1]
             /\ clock' = ClockAfter(nows \o hnows)
             /\ th' = [th EXCEPT ![t] =
                          IF area_properties # <<>>
                          THEN [@ EXCEPT !.pc = "select", !.page = o.page, !.hpage = o.hpage,
                                         !.logged = rows,
                                         !.props = area_properties, !.k = 1, !.new_count = 0]
                          ELSE AfterArea([@ EXCEPT !.page = o.page, !.hpage = o.hpage,
                                                   !.logged = rows,
                                                   !.failed = @ \/ o.failed])]
    /\ UNCHANGED <<scope, stats, priceIn, priceOut, walkIn, walkOut, impl, store, txn, dbLock, runs, view, scoreIn, scoreOut>>

\* a write statement of thread t can run: the write lock is free or its own
CanWrite(t) == dbLock \in {NoThread, t}

\* position after the statement for props[k]
AfterRecord(r, nextpc) ==
    IF r.k < Len(r.props) THEN [r EXCEPT !.k = r.k + 1, !.pc = nextpc, !.existing = <<>>]
    ELSE [r EXCEPT !.k = r.k + 1, !.pc = "commit", !.existing = <<>>]

\* INSERT OR REPLACE: a row with the url is replaced by the new record
InsertOrIgnore_OrReplace(t) ==
    /\ impl = "basic"
    /\ th[t].pc = "save"
    /\ CanWrite(t)
    /\ LET prop == th[t].props[th[t].k]
           table == TableSeen(t)
       IN IF UrlTaken(table, prop.property_url)
          THEN /\ txn' = [i \in 1..Len(table) |->
                             IF table[i].property_url = prop.property_url
                             THEN [NewRow(table, prop, NoTime) EXCEPT !.id = table[i].id]
                             ELSE table[i]]
               /\ th' = [th EXCEPT ![t] = AfterRecord(@, "save")]
          ELSE /\ txn' = Append(table, NewRow(table, prop, NoTime))
               /\ th' = [th EXCEPT ![t] = AfterRecord([@ EXCEPT !.new_count = @ + 1], "save")]
    /\ dbLock' = t
    /\ UNCHANGED <<scope, stats, priceIn, priceOut, walkIn, walkOut, impl, clock, store, runs, view, scoreIn, scoreOut>>

\* save_properties: INSERT OR IGNORE for props[k]
InsertOrIgnore(t) ==
    /\ impl = "basic"
    /\ th[t].pc = "save"
    /\ CanWrite(t)
    /\ LET prop == th[t].props[th[t].k]
           table == TableSeen(t)
       IN IF UrlTaken(table, prop.property_url)
          THEN /\ txn' = table
               /\ th' = [th EXCEPT ![t] = AfterRecord(@, "save")]
          ELSE /\ txn' = Append(table, NewRow(table, prop, NoTime))
               /\ th' = [th EXCEPT ![t] = AfterRecord([@ EXCEPT !.new_count = @ + 1], "save")]
    /\ dbLock' = t
    /\ UNCHANGED <<scope, stats, priceIn, priceOut, walkIn, walkOut, impl, clock, store, runs, view, scoreIn, scoreOut>>

\* the failed statement counted as a new row
WriteLocked_Counted(t) ==
    /\ th[t].pc \in {"save", "write"}
    /\ ~CanWrite(t)
    /\ th' = [th EXCEPT ![t] = AfterRecord([@ EXCEPT !.new_count = @ + 1],
                                            IF impl = "basic" THEN "save" ELSE "select")]
    /\ UNCHANGED <<scope, stats, priceIn, priceOut, walkIn, walkOut, impl, clock, store, txn, dbLock, runs, view, scoreIn, scoreOut>>

\* a write statement times out on another connection's lock: sqlite3.OperationalError,
\* caught by `except sqlite3.Error` inside the loop; the record is skipped
WriteLocked(t) ==
    /\ th[t].pc \in {"save", "write"}
    /\ ~CanWrite(t)
    /\ th' = [th EXCEPT ![t] = AfterRecord(@, IF impl = "basic" THEN "save" ELSE "select")]
    /\ UNCHANGED <<scope, stats, priceIn, priceOut, walkIn, walkOut, impl, clock, store, txn, dbLock, runs, view, scoreIn, scoreOut>>

\* save_properties_enhanced: SELECT id ... WHERE property_url = ? OR (title = ? AND price = ?)
SelectExisting(t) ==
    /\ impl = "enhanced"
    /\ th[t].pc = "select"
    /\ LET prop == th[t].props[th[t].k]
           table == TableSeen(t)
           hits == {i \in 1..Len(table) :
                       \/ table[i].property_url = prop.property_url
                       \/ (table[i].title = prop.title /\ table[i].price = prop.price)}
       IN IF hits = {}
          THEN th' = [th EXCEPT ![t] = [@ EXCEPT !.pc = "write", !.existing = <<>>]]
          ELSE \E i \in hits :
                  th' = [th EXCEPT ![t] = [@ EXCEPT !.pc = "write", !.existing = <<i>>]]
    /\ UNCHANGED <<scope, stats, priceIn, priceOut, walkIn, walkOut, impl, clock, store, txn, dbLock, runs, view, scoreIn, scoreOut>>

\* an UPDATE that also rewrites the found row from the record at hand
UpdateOrInsert_Rewrite(t) ==
    /\ impl = "enhanced"
    /\ th[t].pc = "write"
    /\ CanWrite(t)
    /\ LET prop == th[t].props[th[t].k]
           table == TableSeen(t)
       IN IF th[t].existing # <<>>
          THEN /\ \E now \in Readings(clock, 1) :
                     /\ clock' = now[1]
                     /\ txn' = [table EXCEPT ![th[t].existing[1]] =
                                   [NewRow(table, prop, now[1]) EXCEPT !.id = @]]
               /\ th' = [th EXCEPT ![t] = AfterRecord(@, "select")]
          ELSE IF UrlTaken(table, prop.property_url)
          THEN /\ txn' = table
               /\ clock' = clock
               /\ th' = [th EXCEPT ![t] = AfterRecord(@, "select")]
          ELSE /\ \E now \in Readings(clock, 1) :
                     /\ clock' = now[1]
                     /\ txn' = Append(table, NewRow(table, prop, now[1]))
               /\ th' = [th EXCEPT ![t] = AfterRecord([@ EXCEPT !.new_count = @ + 1], "select")]
    /\ dbLock' = t
    /\ UNCHANGED <<scope, stats, priceIn, priceOut, walkIn, walkOut, impl, store, runs, view, scoreIn, scoreOut>>

\* save_properties_enhanced: UPDATE the existing row, or INSERT a new one
\* (an INSERT of a url taken meanwhile raises sqlite3.IntegrityError, caught in the loop)
UpdateOrInsert(t) ==
    /\ impl = "enhanced"
    /\ th[t].pc = "write"
    /\ CanWrite(t)
    /\ LET prop == th[t].props[th[t].k]
           table == TableSeen(t)
       IN IF th[t].existing # <<>>
          THEN /\ \E now \in Readings(clock, 1) :
                     /\ clock' = now[1]
                     /\ txn' = [table EXCEPT ![th[t].existing[1]] =
                                   [@ EXCEPT !.last_seen = now[1], !.score = prop.score,
                                             !.reasons = prop.reasons, !.is_active = TRUE]]
               /\ th' = [th EXCEPT ![t] = AfterRecord(@, "select")]
          ELSE IF UrlTaken(table, prop.property_url)
          THEN /\ txn' = table
               /\ clock' = clock
               /\ th' = [th EXCEPT ![t] = AfterRecord(@, "select")]
          ELSE /\ \E now \in Readings(clock, 1) :
                     /\ clock' = now[1]
                     /\ txn' = Append(table, NewRow(table, prop, now[1]))
               /\ th' = [th EXCEPT ![t] = AfterRecord([@ EXCEPT !.new_count = @ + 1], "select")]
    /\ dbLock' = t
    /\ UNCHANGED <<scope, stats, priceIn, priceOut, walkIn, walkOut, impl, store, runs, view, scoreIn, scoreOut>>

\* conn.commit(); return new_count; in crawler.py log_search(area, found, new);
\* then total_found += len(properties), total_new += new_count
Commit(t) ==
    /\ th[t].pc = "commit"
    /\ IF dbLock = t
       THEN /\ store' = txn /\ txn' = <<>> /\ dbLock' = NoThread
            /\ view' = IF txn = store THEN view ELSE NoView
       ELSE UNCHANGED <<store, txn, dbLock, view>>
    /\ th' = [th EXCEPT ![t] = AfterArea(
                 [@ EXCEPT !.total_found = @ + Len(th[t].props),
                           !.total_new = @ + th[t].new_count,
                           !.logged = IF impl = "basic"
                                      THEN <<log_search(Len(th[t].props), th[t].new_count)>>
                                      ELSE @])]
    /\ UNCHANGED <<scope, stats, priceIn, priceOut, walkIn, walkOut, impl, clock, runs, scoreIn, scoreOut>>

\* return total_found, total_new; the main thread goes on to app.run
Return(t) ==
    /\ th[t].pc = "return"
    /\ th' = [th EXCEPT ![t] = [IdleThread EXCEPT !.pc = IF t = "main" THEN "serving" ELSE "idle"]]
    /\ UNCHANGED <<scope, stats, priceIn, priceOut, walkIn, walkOut, impl, clock, store, txn, dbLock, runs, view, scoreIn, scoreOut>>

-----------------------------------------------------------------------------
(* Reading the store *)

\* limit arguments: a short page, api_properties (50), export_csv (100)
Limits == {1, 50, 100}

\* ORDER BY score DESC [, found_date DESC]: row a must come before row b
OrderByBefore(a, b) ==
    IF impl = "basic" THEN a.score > b.score
    ELSE a.score > b.score \/ (a.score = b.score /\ a.found_date > b.found_date)

\* a query without the WHERE clause
ActiveRows_All(table) == 1..Len(table)

\* WHERE is_active = 1
ActiveRows(table) == {i \in 1..Len(table) : table[i].is_active}

\* the sequences SELECT ... WHERE is_active = 1 ORDER BY ... may return:
\* rows that tie under the ORDER BY terms come in an order SQL leaves open
QueryResults ==
    LET ids == ActiveRows(store)
        n == Cardinality(ids)
    IN {[i \in 1..n |-> store[f[i]]] :
           f \in {g \in [1..n -> ids] :
                     /\ \A i, j \in 1..n : i # j => g[i] # g[j]
                     /\ \A i, j \in 1..n : i < j => ~OrderByBefore(store[g[j]], store[g[i]])}}

\* get_top_properties(limit), behind /api/properties and /api/export/csv once app.run
\* has started; view is its result while the store stays as it was read
get_top_properties ==
    /\ th["main"].pc = "serving"
    /\ \E limit \in Limits, rows \in QueryResults :
          view' = [valid |-> TRUE, limit |-> limit,
                   rows  |-> SubSeq(rows, 1, IF limit < Len(rows) THEN limit ELSE Len(rows))]
    /\ UNCHANGED <<scope, stats, priceIn, priceOut, walkIn, walkOut, impl, clock, store, txn, dbLock, th, runs, scoreIn, scoreOut>>

\* The schema's is_active column: no code path clears it; a row is marked
\* inactive by a maintenance statement on the database (UPDATE ... SET is_active = 0)
Deactivate ==
    /\ dbLock = NoThread
    /\ Cardinality({i \in 1..Len(store) : ~store[i].is_active}) < MaxInactive
    /\ \E i \in 1..Len(store) :
          /\ store[i].is_active
          /\ store' = [store EXCEPT ![i].is_active = FALSE]
    /\ view' = NoView
    /\ UNCHANGED <<scope, stats, priceIn, priceOut, walkIn, walkOut, impl, clock, txn, dbLock, th, runs, scoreIn, scoreOut>>

\* get_stats: its four queries on the committed table

\* a count over every row, active or not
TotalProperties_AllRows(table) == Len(table)

\* SELECT COUNT(*) FROM properties WHERE is_active = 1
TotalProperties(table) == Cardinality(ActiveRows(table))

\* SELECT COUNT(*) ... WHERE is_active = 1 AND price BETWEEN min_rent AND max_rent
InBudgetCount(table) ==
    Cardinality({i \in ActiveRows(table) :
                    min_rent <= table[i].price /\ table[i].price <= max_rent})

RECURSIVE SumScores(_, _)
SumScores(table, ids) ==
    IF ids = {} THEN 0
    ELSE LET i == CHOOSE j \in ids : TRUE
         IN table[i].score + SumScores(table, ids \ {i})

\* round(x, 1) of x = sum / n, counted in tenths: the nearest tenth, and the
\* even one when x lies halfway between two
RoundTenths(sum, n) ==
    LET q == (10 * sum) \div n
        r == (10 * sum) % n
    IN IF 2 * r < n THEN q
       ELSE IF 2 * r > n THEN q + 1
       ELSE IF q % 2 = 0 THEN q ELSE q + 1

\* round(SELECT AVG(score) ... WHERE is_active = 1 or 0, 1), in tenths:
\* AVG over no rows is NULL, and NULL or 0 is 0
AvgScore(table) ==
    LET ids == ActiveRows(table)
    IN IF ids = {} THEN 0 ELSE RoundTenths(SumScores(table, ids), Cardinality(ids))

\* round(SELECT MAX(score) ... WHERE is_active = 1 or 0, 1): MAX over no rows is NULL
MaxScore(table) ==
    LET ids == ActiveRows(table)
    IN IF ids = {} THEN 0
       ELSE table[CHOOSE i \in ids : \A j \in ids : table[j].score <= table[i].score].score

\* get_stats(), behind /api/stats once app.run has started: a connection of
\* its own reads the committed table; avg_score is counted in tenths
get_stats ==
    /\ th["main"].pc = "serving"
    /\ stats' = [valid            |-> TRUE,
                 total_properties |-> TotalProperties(store),
                 in_budget        |-> InBudgetCount(store),
                 avg_score        |-> AvgScore(store),
                 max_score        |-> MaxScore(store)]
    /\ UNCHANGED <<scope, priceIn, priceOut, walkIn, walkOut, impl, clock, store, txn, dbLock, th,
                   runs, view, scoreIn, scoreOut>>

-----------------------------------------------------------------------------
(* Specification of the application *)

Next ==
    \/ StartupSearch
    \/ ScheduledSearch
    \/ ApiSearch
    \/ \E t \in Threads : SearchArea(t)
    \/ \E t \in Threads : SearchAreaEnhanced(t)
    \/ \E t \in Threads : InsertOrIgnore(t)
    \/ \E t \in Threads : WriteLocked(t)
    \/ \E t \in Threads : SelectExisting(t)
    \/ \E t \in Threads : UpdateOrInsert(t)
    \/ \E t \in Threads : Commit(t)
    \/ \E t \in Threads : Return(t)
    \/ get_top_properties
    \/ Deactivate

Spec == Init /\ [][Next]_vars

-----------------------------------------------------------------------------
(* Specification of concurrent refreshes that save batches of several      *)
(* listings; the store is not read.                                        *)

BatchScope ==
    [refreshes |-> BatchRefreshes, areas |-> NumAreas, items |-> BatchItems,
     homes |-> MaxHomesItems,
     listings |-> ListingsAt({<<"/", "a">>, <<"/", "b">>, <<"/", "e">>}), clock |-> BatchClock]

InitBatch ==
    /\ scope = BatchScope
    /\ impl \in {"basic", "enhanced"}
    /\ clock = 0
    /\ store = <<>>
    /\ txn = <<>>
    /\ dbLock = NoThread
    /\ th = [t \in Threads |-> IF t = "main" THEN [IdleThread EXCEPT !.pc = "init"]
                                ELSE IdleThread]
    /\ runs = 0
    /\ view = NoView
    /\ scoreIn = NoScoreIn
    /\ scoreOut = NoScoreOut
    /\ priceIn = NoPriceIn
    /\ priceOut = NoPriceOut
    /\ walkIn = <<>>
    /\ walkOut = NoWalkOut
    /\ stats = NoStats

NextBatch ==
    \/ StartupSearch
    \/ ScheduledSearch
    \/ ApiSearch
    \/ \E t \in Threads : SearchArea(t)
    \/ \E t \in Threads : SearchAreaEnhanced(t)
    \/ \E t \in Threads : InsertOrIgnore(t)
    \/ \E t \in Threads : WriteLocked(t)
    \/ \E t \in Threads : SelectExisting(t)
    \/ \E t \in Threads : UpdateOrInsert(t)
    \/ \E t \in Threads : Commit(t)
    \/ \E t \in Threads : Return(t)

SpecBatch == InitBatch /\ [][NextBatch]_vars

-----------------------------------------------------------------------------
(* Specification of refreshes that run one after the other while the       *)
(* sites' content does not change: the startup refresh, then refreshes     *)
(* asked for with POST /api/search.  scope.site[a] holds the result pages  *)
(* the sites serve for area a.                                             *)

ReplayListings == ListingsAt({<<"/", "a">>, <<"/", "b">>, <<"/", "e">>})

ReplayScopes ==
    {[refreshes |-> ReplayRefreshes, areas |-> ReplayAreas, items |-> ReplayItems,
      homes |-> ReplayHomesItems, listings |-> ReplayListings, clock |-> ReplayClock,
      site |-> f] :
        f \in [1..ReplayAreas -> [page  : SeqsUpTo(ReplayListings, ReplayItems),
                                  hpage : SeqsUpTo(HomesItems, ReplayHomesItems)]]}

InitReplay ==
    /\ scope \in ReplayScopes
    /\ impl \in {"basic", "enhanced"}
    /\ clock = 0
    /\ store = <<>>
    /\ txn = <<>>
    /\ dbLock = NoThread
    /\ th = [t \in Threads |-> IF t = "main" THEN [IdleThread EXCEPT !.pc = "init"]
                                ELSE IdleThread]
    /\ runs = 0
    /\ view = NoView
    /\ scoreIn = NoScoreIn
    /\ scoreOut = NoScoreOut
    /\ priceIn = NoPriceIn
    /\ priceOut = NoPriceOut
    /\ walkIn = <<>>
    /\ walkOut = NoWalkOut
    /\ stats = NoStats

\* the search step of thread t got the pages the sites hold for its area
Served(t) ==
    /\ ~th'[t].failed
    /\ th'[t].page = scope.site[th[t].ai].page
    /\ impl = "enhanced" => th'[t].hpage = scope.site[th[t].ai].hpage

NextReplay ==
    \/ StartupSearch
    \/ ApiSearch
    \/ \E t \in Threads : SearchArea(t) /\ Served(t)
    \/ \E t \in Threads : SearchAreaEnhanced(t) /\ Served(t)
    \/ \E t \in Threads : InsertOrIgnore(t)
    \/ \E t \in Threads : SelectExisting(t)
    \/ \E t \in Threads : UpdateOrInsert(t)
    \/ \E t \in Threads : Commit(t)
    \/ \E t \in Threads : Return(t)

SpecReplay == InitReplay /\ [][NextReplay]_vars

-----------------------------------------------------------------------------
(* Specification of a refresh running on its own: the startup refresh of   *)
(* app.py (or the run of the crawler module's __main__), with no refresh   *)
(* of another thread, over several areas and longer result pages.          *)

SerialScope ==
    [refreshes |-> SerialRefreshes, areas |-> SerialAreas, items |-> SerialItems,
     homes |-> SerialHomesItems,
     listings |-> ListingsAt({<<"/", "a">>, <<"/", "e">>, <<"/", "d">>}), clock |-> SerialClock]

InitSerial ==
    /\ scope = SerialScope
    /\ impl \in {"basic", "enhanced"}
    /\ clock = 0
    /\ store = <<>>
    /\ txn = <<>>
    /\ dbLock = NoThread
    /\ th = [t \in Threads |-> IF t = "main" THEN [IdleThread EXCEPT !.pc = "init"]
                                ELSE IdleThread]
    /\ runs = 0
    /\ view = NoView
    /\ scoreIn = NoScoreIn
    /\ scoreOut = NoScoreOut
    /\ priceIn = NoPriceIn
    /\ priceOut = NoPriceOut
    /\ walkIn = <<>>
    /\ walkOut = NoWalkOut
    /\ stats = NoStats

NextSerial ==
    \/ StartupSearch
    \/ SearchArea("main")
    \/ SearchAreaEnhanced("main")
    \/ InsertOrIgnore("main")
    \/ SelectExisting("main")
    \/ UpdateOrInsert("main")
    \/ Commit("main")
    \/ Return("main")
    \/ get_top_properties

SpecSerial == InitSerial /\ [][NextSerial]_vars

-----------------------------------------------------------------------------
(* Specification of the statistics: refreshes from the start-up, the       *)
(* scheduler and the API on a short catalogue, rows marked inactive, and   *)
(* get_stats reading the committed table in between.                       *)

StatsScope ==
    [refreshes |-> StatsRefreshes, areas |-> StatsAreas, items |-> StatsItems,
     homes |-> StatsHomesItems,
     listings |-> ListingsAt({<<"/", "a">>, <<"/", "e">>, <<"/", "c">>}), clock |-> StatsClock]

InitStats ==
    /\ scope = StatsScope
    /\ impl \in {"basic", "enhanced"}
    /\ clock = 0
    /\ store = <<>>
    /\ txn = <<>>
    /\ dbLock = NoThread
    /\ th = [t \in Threads |-> IF t = "main" THEN [IdleThread EXCEPT !.pc = "init"]
                                ELSE IdleThread]
    /\ runs = 0
    /\ view = NoView
    /\ scoreIn = NoScoreIn
    /\ scoreOut = NoScoreOut
    /\ priceIn = NoPriceIn
    /\ priceOut = NoPriceOut
    /\ walkIn = <<>>
    /\ walkOut = NoWalkOut
    /\ stats = NoStats

NextStats ==
    \/ StartupSearch
    \/ ScheduledSearch
    \/ ApiSearch
    \/ \E t \in Threads : SearchArea(t)
    \/ \E t \in Threads : SearchAreaEnhanced(t)
    \/ \E t \in Threads : InsertOrIgnore(t)
    \/ \E t \in Threads : WriteLocked(t)
    \/ \E t \in Threads : SelectExisting(t)
    \/ \E t \in Threads : UpdateOrInsert(t)
    \/ \E t \in Threads : Commit(t)
    \/ \E t \in Threads : Return(t)
    \/ Deactivate
    \/ get_stats

SpecStats == InitStats /\ [][NextStats]_vars

-----------------------------------------------------------------------------
(* Specification of the scorers alone: the arguments are drawn at the      *)
(* start, one call computes the result.                                    *)

Prices == {0, 30000, 49999, 50000, 249999, 250000, 279999, 280000, 300000,
           320000, 320001, 350000, 350001, 400000, 400001, 2800000}

Layouts == {Y3LDK, Y2LDK, Unknown,
            <<"4", "L", "D", "K">>, <<"3", "D", "K">>, <<"3", "K">>, <<"1", "K">>,
            <<"3", "S", "L", "D", "K">>, <<"2", "-", "3", "L", "D", "K">>}

WalkTimes == {0, 5, 6, 10, 11, 15, 16, 99, 120}

Sources == {"Suumo", "Homes.co.jp", "AtHome", Null}

InitScore ==
    /\ scope = SmallScope
    /\ impl \in {"basic", "enhanced"}
    /\ clock = 0
    /\ store = <<>>
    /\ txn = <<>>
    /\ dbLock = NoThread
    /\ th = [t \in Threads |-> IdleThread]
    /\ runs = 0
    /\ view = NoView
    /\ scoreIn \in [price : Prices, rooms : Layouts, walk_minutes : WalkTimes,
                    source : Sources, area : 1..Len(Areas)]
    /\ scoreOut = NoScoreOut
    /\ priceIn = NoPriceIn
    /\ priceOut = NoPriceOut
    /\ walkIn = <<>>
    /\ walkOut = NoWalkOut
    /\ stats = NoStats

CallScore ==
    /\ impl = "basic"
    /\ scoreOut.fn = "none"
    /\ scoreOut' = [fn |-> "calculate_score"] @@ calculate_score(scoreIn, Areas[scoreIn.area])
    /\ UNCHANGED <<scope, stats, priceIn, priceOut, walkIn, walkOut, impl, clock, store, txn, dbLock, th, runs, view, scoreIn>>

CallEnhancedScore ==
    /\ impl = "enhanced"
    /\ scoreOut.fn = "none"
    /\ scoreOut' = [fn |-> "calculate_enhanced_score"]
                      @@ calculate_enhanced_score(scoreIn, Areas[scoreIn.area])
    /\ UNCHANGED <<scope, stats, priceIn, priceOut, walkIn, walkOut, impl, clock, store, txn, dbLock, th, runs, view, scoreIn>>

NextScore == CallScore \/ CallEnhancedScore

SpecScore == InitScore /\ [][NextScore]_vars

-----------------------------------------------------------------------------
(* Specification of the price extractors as pure functions: a price text   *)
(* and a text that follows it in the same field are drawn from bounded     *)
(* sets, and the extractor is applied to the text alone and to the text    *)
(* with what follows it.                                                   *)

PriceTexts ==
    {<<"2", "8", "man", "yen">>,                           \* 28 man yen
     <<"2", "8", ".", "5", "man", "yen">>,                 \* 28.5 man yen
     <<"3", "man", "yen">>,                                \* 3 man yen
     <<"1", "2", "0", "man", "yen">>,                      \* 120 man yen
     <<"2", "8", "0", ",", "0", "0", "0", "yen">>,         \* 280,000 yen
     <<"2", "0", "0", "0", "0", "0", "yen">>,              \* 200000 yen
     <<"1", "5", "0", "0", "0", "0">>,                     \* 150000
     <<"9", "9">>,
     <<"1", "0", "0">>,
     <<"9", "9", "9", "9", "9">>,
     <<"yen">>,
     <<>>}

MoreTexts ==
    {<<>>,
     <<" ", "5", "0", "0", "yen">>,                        \* a fee, after a blank
     <<"/", "5", "0", "0", "0", "yen">>,                   \* a fee, after a slash
     <<" ", "1", "man", "yen">>,                           \* a fee in man
     <<"(", "1", "0", "0", "0", "0", "0", "yen", ")">>}    \* a deposit in brackets

InitPrice ==
    /\ scope = SmallScope
    /\ impl \in {"basic", "enhanced"}
    /\ clock = 0
    /\ store = <<>>
    /\ txn = <<>>
    /\ dbLock = NoThread
    /\ th = [t \in Threads |-> IdleThread]
    /\ runs = 0
    /\ view = NoView
    /\ scoreIn = NoScoreIn
    /\ scoreOut = NoScoreOut
    /\ priceIn \in [text : PriceTexts, more : MoreTexts]
    /\ priceOut = NoPriceOut
    /\ walkIn = <<>>
    /\ walkOut = NoWalkOut
    /\ stats = NoStats

CallExtractPrice ==
    /\ impl = "basic"
    /\ priceOut.fn = "none"
    /\ priceOut' = [fn         |-> "extract_price",
                    price      |-> extract_price(priceIn.text),
                    price_more |-> extract_price(priceIn.text \o priceIn.more)]
    /\ UNCHANGED <<scope, stats, priceIn, walkIn, walkOut, impl, clock, store, txn, dbLock, th, runs, view,
                   scoreIn, scoreOut>>

CallExtractPriceEnhanced ==
    /\ impl = "enhanced"
    /\ priceOut.fn = "none"
    /\ priceOut' = [fn         |-> "extract_price_enhanced",
                    price      |-> extract_price_enhanced(priceIn.text),
                    price_more |-> extract_price_enhanced(priceIn.text \o priceIn.more)]
    /\ UNCHANGED <<scope, stats, priceIn, walkIn, walkOut, impl, clock, store, txn, dbLock, th, runs, view,
                   scoreIn, scoreOut>>

NextPrice == CallExtractPrice \/ CallExtractPriceEnhanced

SpecPrice == InitPrice /\ [][NextPrice]_vars

-----------------------------------------------------------------------------
(* Specification of the walk time extractors as pure functions: a text is  *)
(* drawn from a bounded set and the extractor is applied to it.            *)

WalkHeads ==
    {<<>>,
     <<"T1">>,                                             \* a title
     <<"1", "0", "fun">>,                                  \* by bus, 10 fun
     <<"to", "ho">>,
     <<"3", "0">>}

WalkTails ==
    {<<>>,
     <<"to", "ho", "5", "fun">>,                           \* to ho 5 fun
     <<"to", "ho", "1", "2", "fun">>,                      \* to ho 12 fun
     <<"to", "ho", "1", "2", "0", "fun">>,                 \* to ho 120 fun
     <<"to", "ho", "0", "fun">>,                           \* to ho 0 fun
     <<"7", "fun">>,                                       \* 7 fun
     <<"to", "ho", "fun">>,
     <<"5">>}

WalkTexts == {head \o tail : head \in WalkHeads, tail \in WalkTails}

InitWalk ==
    /\ scope = SmallScope
    /\ impl \in {"basic", "enhanced"}
    /\ clock = 0
    /\ store = <<>>
    /\ txn = <<>>
    /\ dbLock = NoThread
    /\ th = [t \in Threads |-> IdleThread]
    /\ runs = 0
    /\ view = NoView
    /\ scoreIn = NoScoreIn
    /\ scoreOut = NoScoreOut
    /\ priceIn = NoPriceIn
    /\ priceOut = NoPriceOut
    /\ walkIn \in WalkTexts
    /\ walkOut = NoWalkOut
    /\ stats = NoStats

CallExtractWalkTime ==
    /\ impl = "basic"
    /\ walkOut.fn = "none"
    /\ walkOut' = [fn |-> "extract_walk_time", minutes |-> extract_walk_time(walkIn)]
    /\ UNCHANGED <<scope, stats, priceIn, priceOut, walkIn, impl, clock, store, txn, dbLock, th,
                   runs, view, scoreIn, scoreOut>>

CallExtractWalkTimeEnhanced ==
    /\ impl = "enhanced"
    /\ walkOut.fn = "none"
    /\ walkOut' = [fn      |-> "extract_walk_time_enhanced",
                   minutes |-> extract_walk_time_enhanced(walkIn)]
    /\ UNCHANGED <<scope, stats, priceIn, priceOut, walkIn, impl, clock, store, txn, dbLock, th,
                   runs, view, scoreIn, scoreOut>>

NextWalk == CallExtractWalkTime \/ CallExtractWalkTimeEnhanced

SpecWalk == InitWalk /\ [][NextWalk]_vars

-----------------------------------------------------------------------------
(* Properties *)

\* rows of a table, and the properties a thread holds
RowsOf(table) == {table[i] : i \in 1..Len(table)}
HeldProps == UNION {RowsOf(th[t].props) : t \in Threads}

\* C1: every score a scorer returns lies in 0..100
C1_ScoreBounds ==
    scoreOut.fn # "none" => (0 <= scoreOut.score /\ scoreOut.score <= 100)

\* the best listing of calculate_score: 25 + 20 + 10 + 15 + 10
C1_Witness == scoreOut.fn = "calculate_score" /\ scoreOut.score = 80

\* C2: at most one refresh is in flight at any time
C2_AtMostOneRefresh == Cardinality({t \in Threads : InFlight(t)}) <= 1

\* C3: a refresh invoked while another one is in flight is skipped: the
\* invocation does not enter run_full_search (and so writes nothing)
C3_OverlappingInvocationSkipped ==
    [][\A t \in Threads :
          (~InFlight(t) /\ \E u \in Threads \ {t} : InFlight(u)) => ~InFlight(t)']_vars

\* C4: the store, committed or inside a transaction, holds at most one row per
\* property_url
UniqueUrls(table) ==
    \A i, j \in 1..Len(table) : i # j => table[i].property_url # table[j].property_url

C4_OneRowPerUrl == UniqueUrls(store) /\ UniqueUrls(txn)

\* a listing whose url is already stored was offered again and not inserted
C4_Witness ==
    \E t \in Threads :
        /\ impl = "basic" /\ dbLock = t /\ th[t].pc = "commit"
        /\ th[t].new_count = 0 /\ txn = store /\ store # <<>>
        /\ \A i \in 1..Len(th[t].props) : UrlTaken(store, th[t].props[i].property_url)

\* C5: the ranked view is sorted by score descending, then walk_to_stop_min
\* ascending with nulls last, then found_at descending.  The table has no
\* walk_to_stop_min column: the value is null for every listing.
WalkToStop(row) == Null

NullsLastLess(x, y) == x # Null /\ (y = Null \/ x < y)

RankedBefore(a, b) ==
    \/ a.score > b.score
    \/ a.score = b.score /\ NullsLastLess(WalkToStop(a), WalkToStop(b))
    \/ a.score = b.score /\ WalkToStop(a) = WalkToStop(b) /\ a.found_date > b.found_date

C5_RankedOrder ==
    view.valid =>
        \A i, j \in 1..Len(view.rows) : i < j => ~RankedBefore(view.rows[j], view.rows[i])

\* C6: of two listings in the ranked view tied on score, walk_to_stop_min and
\* found_at, the one with the smaller key (its url) comes first
CharOrder == <<"-", ".", "/", ":", "a", "b", "c", "d", "e", "h", "j", "m", "o", "p", "s",
               "t", "u", "w">>
Ord(c) == CHOOSE i \in 1..Len(CharOrder) : CharOrder[i] = c

RECURSIVE LexLess(_, _)
LexLess(x, y) ==
    IF y = <<>> THEN FALSE
    ELSE IF x = <<>> THEN TRUE
    ELSE IF Head(x) = Head(y) THEN LexLess(Tail(x), Tail(y))
    ELSE Ord(Head(x)) < Ord(Head(y))

Tied(a, b) ==
    a.score = b.score /\ WalkToStop(a) = WalkToStop(b) /\ a.found_date = b.found_date

C6_TiesBySmallerId ==
    view.valid =>
        \A i, j \in 1..Len(view.rows) :
            (i < j /\ Tied(view.rows[i], view.rows[j]))
                => ~LexLess(view.rows[j].property_url, view.rows[i].property_url)

C8_ViewActiveOnly ==
    view.valid => \A i \in 1..Len(view.rows) : view.rows[i].is_active

\* a view was read while the store holds an inactive row
C8_Witness ==
    view.valid /\ view.rows # <<>> /\ \E i \in 1..Len(store) : ~store[i].is_active

\* C9: a record without a url is rejected: no property held by a refresh and no
\* stored row has an empty url
C9_UrlRequired ==
    \A r \in HeldProps \cup RowsOf(store) \cup RowsOf(txn) : r.property_url # <<>>

\* C10: a record whose price parses below 50,000 is rejected: no property held
\* by a refresh and no stored row has a price below 50,000
C10_PriceFloor ==
    \A r \in HeldProps \cup RowsOf(store) \cup RowsOf(txn) : r.price >= 50000

\* a page with a 30,000 yen listing was fetched and yielded no property
C10_Witness ==
    \E t \in Threads :
        /\ th[t].pc = "return" /\ th[t].page # <<>>
        /\ th[t].page[1].price_elem # <<>>
        /\ extract_price(th[t].page[1].price_elem[1]) = 30000
        /\ extract_price_enhanced(th[t].page[1].price_elem[1]) = 30000
        /\ store = <<>>

\* the scoring blocks that ran for the call recorded in scoreIn / scoreOut
PartsOfCall ==
    IF scoreOut.fn = "calculate_score" THEN ScoreParts(scoreIn, Areas[scoreIn.area])
    ELSE EnhancedScoreParts(scoreIn, Areas[scoreIn.area])

RECURSIVE SumPts(_)
SumPts(parts) == IF parts = <<>> THEN 0 ELSE Head(parts).pts + SumPts(Tail(parts))

RECURSIVE AllReasons(_)
AllReasons(parts) == IF parts = <<>> THEN <<>> ELSE Head(parts).reasons \o AllReasons(Tail(parts))

\* the blocks that appended a reason
Explained(parts) == SelectSeq(parts, LAMBDA c : c.reasons # <<>>)

\* C11: the points of the blocks that appended a reason add up to the score
\* before the clamp, the reasons returned are exactly theirs, and no block
\* changes the score without appending a reason
C11_ReasonFidelity ==
    scoreOut.fn # "none" =>
        LET parts == PartsOfCall
            unclamped == SumPts(Explained(parts))
        IN /\ \A i \in 1..Len(parts) : parts[i].pts # 0 => parts[i].reasons # <<>>
           /\ scoreOut.reasons = AllReasons(parts)
           /\ scoreOut.score = IF scoreOut.fn = "calculate_score" THEN unclamped
                                ELSE Clamp(unclamped)

\* an over-budget listing with no layout and a long walk: one negative
\* contribution with its reason, two blocks that add nothing
C11_Witness ==
    /\ scoreOut.fn = "calculate_enhanced_score"
    /\ scoreIn.price = 400000 /\ scoreIn.rooms = Unknown /\ scoreIn.walk_minutes = 99
    /\ scoreOut.reasons[1] = "Over budget"
    /\ Len(scoreOut.reasons) < 5

\* C12: a scorer that returns a positive score returns at least one reason
C12_ReasonsNonEmpty ==
    (scoreOut.fn # "none" /\ scoreOut.score > 0) => scoreOut.reasons # <<>>

\* the lowest score of calculate_score: only the area block contributes
C12_Witness ==
    /\ scoreOut.fn = "calculate_score" /\ scoreOut.score = 6
    /\ scoreOut.reasons = <<"Priority area: School Route">>

\* the score the scorer of the call recorded in scoreOut gives the same
\* listing at price p
ScoreAtPrice(p) ==
    IF scoreOut.fn = "calculate_score"
    THEN calculate_score([scoreIn EXCEPT !.price = p], Areas[scoreIn.area]).score
    ELSE calculate_enhanced_score([scoreIn EXCEPT !.price = p], Areas[scoreIn.area]).score

\* C13: a listing priced outside min_rent..max_rent never scores higher than
\* the same listing priced inside it
C13_BudgetMonotone ==
    (scoreOut.fn # "none" /\ ~PriceInBudget(scoreIn.price)) =>
        \A p \in Prices : PriceInBudget(p) => ScoreAtPrice(p) >= scoreOut.score

\* a listing just below the budget, which calculate_enhanced_score rewards
C13_Witness ==
    /\ scoreOut.fn = "calculate_enhanced_score"
    /\ scoreIn.price = 249999
    /\ scoreOut.reasons[1] = "Great value - under budget"
    /\ ScoreAtPrice(250000) = scoreOut.score + 5

\* what a Suumo search returns for a page that holds the one record item
RecordAlone(item, area_data) ==
    LET resp == [status |-> 200, page |-> <<item>>]
    IN IF impl = "basic" THEN search_suumo_area(resp, area_data, <<0>>)
       ELSE search_suumo_improved(resp, resp, area_data, <<0>>)

\* the records of a page, each one normalized on its own
RECURSIVE EachAlone(_, _)
EachAlone(page, area_data) ==
    IF page = <<>> THEN <<>>
    ELSE RecordAlone(Head(page), area_data) \o EachAlone(Tail(page), area_data)

\* the Suumo properties of a batch, without the time they were found at
SuumoProps(props) ==
    LET suumo == SelectSeq(props, LAMBDA q : q.source # "Homes.co.jp")
    IN [i \in 1..Len(suumo) |-> [suumo[i] EXCEPT !.found_date = 0]]

\* C14: a record that does not normalize is dropped on its own: the batch a
\* search step hands on is what the records of the page it fetched yield one
\* by one (nothing is saved only if none of them yields a property), and the
\* refresh returns only after its last area
C14_MalformedRecordSkipped ==
    [][\A t \in Threads :
          (th[t].pc = "search" /\ th'[t] # th[t]) =>
              LET batch == EachAlone(th'[t].page, Areas[th[t].ai])
              IN /\ th'[t].pc \in {"save", "select"} => SuumoProps(th'[t].props) = batch
                 /\ th'[t].pc \notin {"save", "select"} => batch = <<>>
                 /\ th'[t].pc = "return" => th[t].ai = scope.areas]_vars

\* in its second area, crawler.py got a page whose first record has no price
\* element and whose second record is well formed, and holds the second
C14_Witness ==
    /\ impl = "basic" /\ th["main"].pc = "save" /\ th["main"].ai = 2
    /\ Len(th["main"].page) = 2
    /\ th["main"].page[1].price_elem = <<>>
    /\ Len(th["main"].props) = 1
    /\ th["main"].props[1].title = th["main"].page[2].title_elem[1]

\* C15: a write statement that fails is skipped and the batch goes on with
\* the next listing; when save_properties commits, the rows it added to the
\* store are as many as the new_count it returns, and run_full_search adds
\* exactly that count to the total_new it returns
C15_WriteErrorSkipped ==
    [][\A t \in Threads :
          /\ (th[t].pc \in {"save", "write"} /\ ~CanWrite(t) /\ th'[t] # th[t]) =>
                 /\ th'[t].k = th[t].k + 1
                 /\ th'[t].props = th[t].props
                 /\ th'[t].pc = IF th[t].k = Len(th[t].props) THEN "commit"
                                 ELSE IF impl = "basic" THEN "save" ELSE "select"
          /\ (th[t].pc = "commit" /\ th'[t] # th[t]) =>
                 /\ Len(store') - Len(store) = th[t].new_count
                 /\ th'[t].total_new = th[t].total_new + th[t].new_count]_vars

\* crawler.py is about to commit a batch of two listings whose first INSERT
\* failed on another refresh's lock and whose second INSERT added a row
C15_Witness ==
    \E t \in Threads :
        /\ impl = "basic" /\ th[t].pc = "commit" /\ dbLock = t
        /\ Len(th[t].props) = 2 /\ th[t].new_count = 1
        /\ ~UrlTaken(txn, th[t].props[1].property_url)
        /\ txn[Len(txn)].property_url = th[t].props[2].property_url
        /\ Len(txn) = Len(store) + 1

\* C16: once an area search of a refresh got no page from any site, the
\* refresh does nothing more than return: it fetches no further area and
\* writes nothing
C16_AcquisitionFailureAborts ==
    [][\A t \in Threads :
          (th[t].failed /\ th'[t] # th[t]) =>
              (th'[t].pc \in {"idle", "serving"} /\ store' = store)]_vars

\* C17: a refresh that ran after the startup refresh, over the same raw
\* records, returns with total_new = 0 and leaves the table with the rows it
\* had when it started, each with its score, reasons and found_date
C17_SecondRunIdempotent ==
    \A t \in Threads \ {"main"} :
        th[t].pc = "return" =>
            /\ th[t].total_new = 0
            /\ Len(store) = Len(th[t].before)
            /\ \A i \in 1..Len(store) :
                   /\ store[i].score = th[t].before[i].score
                   /\ store[i].reasons = th[t].before[i].reasons
                   /\ store[i].found_date = th[t].before[i].found_date

\* the second refresh found two listings, later than the first refresh did,
\* and is about to return
C17_Witness ==
    /\ th["http"].pc = "return" /\ th["http"].total_found = 2
    /\ Len(store) = 2 /\ clock > store[1].found_date

\* C18: when a refresh has written an area's batch and is about to commit,
\* every accepted listing of the batch has a row under its own property_url
\* (listings with different urls are never merged into one row)
C18_OwnRowPerUrl ==
    \A t \in Threads :
        th[t].pc = "commit" =>
            \A k \in 1..Len(th[t].props) :
                \E i \in 1..Len(TableSeen(t)) :
                    TableSeen(t)[i].property_url = th[t].props[k].property_url

\* the price the pattern order gives: N man (N times 10,000), else a run of
\* six or more digits as it stands, else the first number (times 10,000
\* below 100, else as it stands); commas, yen and blanks do not count
ClaimedPrice(text) ==
    LET m1 == FirstManNumber(RemoveChars(text, {"yen", ",", "ten", " "}))
        clean_text == RemoveChars(text, {"man", "yen", ",", "ten", " "})
        m2 == FirstLongInt(clean_text)
        m3 == FirstNumber(clean_text)
    IN IF m1.found THEN IntOfScaled(m1, 10000)
       ELSE IF m2.found THEN IntOfScaled(m2, 1)
       ELSE IF ~m3.found THEN 0
       ELSE IF IntOfScaled(m3, 1) < 100 THEN IntOfScaled(m3, 10000)
       ELSE IntOfScaled(m3, 1)

\* C19: an extractor returns the price of the first applicable pattern in
\* the order N man, six or more digits, any number; 28 man yen and
\* 280,000 yen both give 280000
C19_PatternOrder ==
    priceOut.fn # "none" =>
        /\ priceOut.price = ClaimedPrice(priceIn.text)
        /\ priceIn.text \in {<<"2", "8", "man", "yen">>,
                              <<"2", "8", "0", ",", "0", "0", "0", "yen">>}
              => priceOut.price = 280000

\* C20: when a price text holds a number, what follows that text in the
\* field does not change the extracted price
C20_FirstNumberOnly ==
    (priceOut.fn # "none" /\ FirstNumber(priceIn.text).found) =>
        priceOut.price_more = priceOut.price

\* the walking time the pattern order gives: the number of the first
\* to ho N fun, else of the first N fun, else 10
ClaimedWalk(text) ==
    LET m1 == FirstWalkMinutes(text)
        m2 == FirstMinutes(text)
    IN IF m1.found THEN m1.n ELSE IF m2.found THEN m2.n ELSE 10

\* C21: an extractor returns the number of the first to ho N fun match,
\* otherwise of the first N fun match, and 10 when the text has neither
C21_WalkPatternOrder ==
    walkOut.fn # "none" => walkOut.minutes = ClaimedWalk(walkIn)

\* C22: the walking time an extractor returns lies in 0..99
C22_WalkSaturates ==
    walkOut.fn # "none" => (0 <= walkOut.minutes /\ walkOut.minutes <= 99)

\* the budget component by sweet spot, budget, below budget, up to 50,000
\* above budget, and beyond
ClaimedBudget(price) ==
    IF 280000 <= price /\ price <= 320000 THEN 25
    ELSE IF min_rent <= price /\ price <= max_rent THEN 20
    ELSE IF price < min_rent THEN 20
    ELSE IF price <= max_rent + 50000 THEN 18
    ELSE 10

\* C23: the price block of a scorer adds 25 in 280,000..320,000, 20 elsewhere
\* in 250,000..350,000, 20 below 250,000, 18 up to 400,000 and 10 above
C23_BudgetComponent ==
    scoreOut.fn # "none" => PartsOfCall[1].pts = ClaimedBudget(scoreIn.price)

\* the layout component by the layout codes 3LDK, 4LDK and 2LDK
ClaimedLayout(rooms) ==
    IF Contains(<<"3", "L", "D", "K">>, rooms) THEN 20
    ELSE IF Contains(<<"4", "L", "D", "K">>, rooms) THEN 18
    ELSE IF Contains(<<"2", "L", "D", "K">>, rooms) THEN 15
    ELSE 0

\* C24: the room block of a scorer adds 20 for a layout containing 3LDK, 18
\* for 4LDK, 15 for 2LDK and nothing for any other layout
C24_LayoutComponent ==
    scoreOut.fn # "none" => PartsOfCall[2].pts = ClaimedLayout(scoreIn.rooms)

\* the reasons of the price blocks, of the bus route blocks and of the walk
\* time blocks of the two scorers
BudgetReasons ==
    {"Perfect price range", "Good price", "Perfect price range (280k-320k)",
     "Good price range", "Great value - under budget", "Over budget"}
RouteBonusReasons ==
    {"Premium Pink Route access", "Excellent Yellow Route access", "Good Green Route access",
     "Premium Pink Route - excellent bus access",
     "Excellent Yellow Route - great for families", "Good Green Route - spacious area"}
StationReasons ==
    {"Very close to station", "Close to station", "Acceptable walk",
     "Very close to station (<=5 min)", "Close to station (<=10 min)",
     "Acceptable walk (<=15 min)"}

\* C25: in the reasons a scorer returns, the budget reason is the first one
\* and the bus route reason stands before the station proximity reason
C25_ReasonOrder ==
    scoreOut.fn # "none" =>
        \A i, j \in 1..Len(scoreOut.reasons) :
            /\ scoreOut.reasons[i] \in BudgetReasons => i = 1
            /\ (scoreOut.reasons[i] \in RouteBonusReasons
                  /\ scoreOut.reasons[j] \in StationReasons) => i < j

RECURSIVE SumOf(_, _)
SumOf(rows, col) ==
    IF rows = <<>> THEN 0
    ELSE (IF col = "found" THEN Head(rows).found ELSE Head(rows).new) + SumOf(Tail(rows), col)

\* C26: the rows a refresh logs for an area match what happened: when every
\* fetch of the area failed, a row with a status other than success is
\* logged, and when the area's batch is committed the logged found counts
\* add up to the listings accepted and the logged new counts to the rows
\* inserted
C26_RunSummaryCounts ==
    [][\A t \in Threads :
          /\ (th[t].pc = "search" /\ th'[t] # th[t] /\ ~th[t].failed /\ th'[t].failed) =>
                \E i \in 1..Len(th'[t].logged) : th'[t].logged[i].status # "success"
          /\ (th[t].pc = "commit" /\ th'[t] # th[t]) =>
                /\ SumOf(th'[t].logged, "found") = Len(th[t].props)
                /\ SumOf(th'[t].logged, "new") = th[t].new_count]_vars

\* the score the scorer of the call recorded in scoreOut gives the same
\* listing at walking time w
ScoreAtWalk(w) ==
    IF scoreOut.fn = "calculate_score"
    THEN calculate_score([scoreIn EXCEPT !.walk_minutes = w], Areas[scoreIn.area]).score
    ELSE calculate_enhanced_score([scoreIn EXCEPT !.walk_minutes = w],
                                  Areas[scoreIn.area]).score

\* C27: of two listings that differ only in walk_minutes, the one with the
\* smaller walk_minutes never has the lower score
C27_WalkMonotone ==
    scoreOut.fn # "none" =>
        \A w \in WalkTimes : w <= scoreIn.walk_minutes => ScoreAtWalk(w) >= scoreOut.score

\* a listing 16 minutes from the station, which scores 15 less than the same
\* listing 5 minutes from it and 5 less than 15 minutes from it
C27_Witness ==
    /\ scoreOut.fn = "calculate_score"
    /\ scoreIn.walk_minutes = 16
    /\ ScoreAtWalk(5) = scoreOut.score + 15
    /\ ScoreAtWalk(15) = scoreOut.score + 5

C28_WitnessEmpty ==
    /\ stats.valid /\ store = <<>> /\ stats.total_properties = 0

\* the columns the UPDATE of save_properties_enhanced sets
UpdatedFields == {"last_seen", "score", "reasons", "is_active"}

\* table new holds every row of table old: none is missing or marked inactive,
\* a row differs from what it was in the updated columns at most, and under
\* the basic crawler in nothing
RowsKept(old, new) ==
    /\ Len(new) >= Len(old)
    /\ \A i \in 1..Len(old) :
          /\ \A f \in DOMAIN old[i] \ UpdatedFields : new[i][f] = old[i][f]
          /\ old[i].is_active => new[i].is_active
          /\ impl = "basic" => new[i] = old[i]

\* C29: a step of a refresh never deletes or deactivates a stored row; a row
\* found again is left as it is by the basic crawler and changes in
\* last_seen, score, reasons and is_active (set to 1) only under the enhanced
\* one; title, price, rooms, property_url and found_date of every stored row,
\* and the number of rows, stay. Holds of the committed table and of the
\* table inside the open transaction; the step that marks a row inactive is
\* a maintenance statement, not a refresh.
C29_RefreshKeepsRows ==
    [][Deactivate \/ (/\ RowsKept(store, store')
                      /\ dbLock' # NoThread => RowsKept(store, txn'))]_vars

\* the enhanced crawler has found an inactive row again, set it active and
\* moved its last_seen, inserting nothing
C29_Witness ==
    /\ impl = "enhanced"
    /\ \E t \in Threads :
          /\ dbLock = t /\ th[t].pc = "commit" /\ th[t].new_count = 0
          /\ Len(txn) = Len(store)
          /\ \E i \in 1..Len(store) :
                /\ ~store[i].is_active /\ txn[i].is_active
                /\ txn[i].last_seen > store[i].last_seen
                /\ txn[i].found_date = store[i].found_date

\* the basic crawler has found a stored row again and left it
C29_WitnessBasic ==
    /\ impl = "basic"
    /\ \E t \in Threads :
          /\ dbLock = t /\ th[t].pc = "commit" /\ th[t].new_count = 0
          /\ store # <<>> /\ txn = store

=============================================================================
